---- MODULE Spec2Model ----
(***************************************************************************)
(* A model of extract-gl-client-prof.py: main() runs parse_input over the  *)
(* lines of a gluster client profile log, then make_out_dir, then          *)
(* generate_output (gen_output_bytes, gen_per_fop_stats per statistic,     *)
(* gen_graphs, gen_static_softlink).                                       *)
(*                                                                         *)
(* A line of the log is modelled by its whitespace-split token sequence    *)
(* (ln.split()); ln.__contains__(s) is matched on whole tokens.  Python    *)
(* floats are modelled by exact rationals [n, d] in lowest terms, and the  *)
(* '%' formatting operators by decimal rendering into strings.  An         *)
(* uncaught Python exception ends the process: pc becomes "exit" and exc   *)
(* records the function it was raised in and its type.                     *)
(***************************************************************************)
EXTENDS Integers, Sequences, FiniteSets, TLC

(***************************************************************************)
(* Bounds of the model.                                                    *)
(***************************************************************************)
MaxLines == 5        \* lines after the header, in a log of arbitrary lines
MaxIntervals == 2    \* snapshots in a well-formed log
MaxLogLines == 7     \* lines read before the last cumulative row or duration

(***************************************************************************)
(* Program constants.                                                      *)
(***************************************************************************)
stat_names == <<"pct-lat", "avg-lat", "min-lat", "max-lat", "call-rate">>
directions == <<"MBps-read", "MBps-written">>
\* 1.0e24 in the source; TLC integers are 32 bits wide, so the sentinel is
\* modelled by 10^9, which like 1.0e24 exceeds every latency of the inputs.
min_lat_infinity == 1000000000
bytes_per_MB == 1000000
graph_csvs == <<"MBps-written", "MBps-read", "call-rate", "pct-lat">>

\* None: an attribute or global not set yet; every number the program stores
\* is non-negative
None == -1
NoExc == [in |-> "", type |-> ""]

(***************************************************************************)
(* Arithmetic on floats, as exact rationals in lowest terms.               *)
(***************************************************************************)
RECURSIVE GCD(_, _)
GCD(a, b) == IF b = 0 THEN a ELSE GCD(b, a % b)

Rat(n, d) ==
    LET g == GCD(n, d) IN [n |-> n \div g, d |-> d \div g]

RatZero == [n |-> 0, d |-> 1]

RatOfInt(k) == [n |-> k, d |-> 1]

RatMulInt(r, k) == Rat(r.n * k, r.d)

\* k / r for r # 0
IntDivRat(k, r) == Rat(k * r.d, r.n)

\* the integer nearest to n / d, ties to even (printf's rounding)
RoundHalfEven(n, d) ==
    LET q == n \div d
        r == n % d
    IN  IF 2 * r < d THEN q
        ELSE IF 2 * r > d THEN q + 1
        ELSE IF q % 2 = 0 THEN q ELSE q + 1

(***************************************************************************)
(* Decimal rendering and parsing.                                          *)
(***************************************************************************)
Digit(d) ==
    CASE d = 0 -> "0" [] d = 1 -> "1" [] d = 2 -> "2" [] d = 3 -> "3"
      [] d = 4 -> "4" [] d = 5 -> "5" [] d = 6 -> "6" [] d = 7 -> "7"
      [] d = 8 -> "8" [] d = 9 -> "9"

RECURSIVE DecStr(_)
DecStr(n) == IF n < 10 THEN Digit(n) ELSE DecStr(n \div 10) \o Digit(n % 10)

RECURSIVE Pow10(_)
Pow10(k) == IF k = 0 THEN 1 ELSE 10 * Pow10(k - 1)

RECURSIVE PadLeft(_, _)
PadLeft(s, w) == IF Len(s) >= w THEN s ELSE PadLeft(" " \o s, w)

RECURSIVE PadRight(_, _)
PadRight(s, w) == IF Len(s) >= w THEN s ELSE PadRight(s \o " ", w)

RECURSIVE ZeroFill(_, _)
ZeroFill(s, w) == IF Len(s) >= w THEN s ELSE ZeroFill("0" \o s, w)

\* '%.<k>f' % r for a rational r >= 0
FixedStr(r, k) ==
    LET scaled == RoundHalfEven(r.n * Pow10(k), r.d)
    IN  IF k = 0 THEN DecStr(scaled)
        ELSE DecStr(scaled \div Pow10(k)) \o "."
               \o ZeroFill(DecStr(scaled % Pow10(k)), k)

\* the numbers whose decimal numerals occur in the modelled logs
Numbers == (0..10) \cup {50, 100, 200, 300, 2500000, 5000000}

\* int(tok) and float(tok): the number a numeral token denotes
NumeralValue ==
    [t \in {DecStr(n) : n \in Numbers} |->
        CHOOSE n \in Numbers : DecStr(n) = t]

IsNumeral(t) == t \in DOMAIN NumeralValue

(***************************************************************************)
(* Characters of the tokens that can start a line, as code points, for the *)
(* regular expression all_caps_name and for sorted().                      *)
(***************************************************************************)
CharCodes ==
    [t \in {"READ", "WRITE", "Fop"} |->
        CASE t = "READ"  -> <<82, 69, 65, 68>>
          [] t = "WRITE" -> <<87, 82, 73, 84, 69>>
          [] t = "Fop"   -> <<70, 111, 112>>]

RECURSIVE LexLess(_, _)
LexLess(a, b) ==
    IF a = <<>> THEN b # <<>>
    ELSE IF b = <<>> THEN FALSE
    ELSE IF a[1] # b[1] THEN a[1] < b[1]
    ELSE LexLess(Tail(a), Tail(b))

StrLess(s, t) == LexLess(CharCodes[s], CharCodes[t])

\* the names of the set in descending order
RECURSIVE sortedDescending(_)
sortedDescending(S) ==
    IF S = {} THEN <<>>
    ELSE LET m == CHOOSE x \in S : \A y \in S \ {x} : StrLess(y, x)
         IN  <<m>> \o sortedDescending(S \ {m})

\* sorted(names): the names of the set in ascending order
RECURSIVE sorted(_)
sorted(S) ==
    IF S = {} THEN <<>>
    ELSE LET m == CHOOSE x \in S : \A y \in S \ {x} : StrLess(x, y)
         IN  <<m>> \o sorted(S \ {m})

(***************************************************************************)
(* The inputs: header lines and log lines.                                 *)
(***************************************************************************)
GoodStamp == "Thu Jan  1 00:16:40 UTC 1970"

\* time.mktime(time.strptime(stamp, '%a %b %d %H:%M:%S %Z %Y')), in seconds
StampSeconds == [s \in {GoodStamp} |-> 1000]

Headers ==
    { [tokens |-> <<"10", "5">>, stamp |-> GoodStamp],      \* well-formed
      [tokens |-> <<"10">>, stamp |-> GoodStamp],           \* no interval field
      [tokens |-> <<"10", "five">>, stamp |-> GoodStamp],   \* non-numeric
      [tokens |-> <<"10", "5">>, stamp |-> "yesterday"] }   \* bad timestamp

FopNames == {"READ", "WRITE"}

\* name, calls, avg-lat, min-lat, max-lat of the operation rows of the logs
RowFields ==
    { <<"READ", "10", "100", "50", "200">>,
      <<"READ", "0", "0", "0", "0">>,
      <<"WRITE", "5", "200", "100", "300">>,
      <<"READ", "x", "100", "50", "200">> }

RowLines ==
    { <<r[1], r[2], r[3], "us", r[4], "us", r[5], "us">> : r \in RowFields }

IntervalLines ==
    { <<"===", "Interval", DecStr(n), "stats", "===">> :
        n \in 0..(MaxIntervals - 1) }

DurationLines == { <<"Duration", ":", d>> : d \in {"5", "6", "7"} }

Lines ==
    IntervalLines \cup RowLines \cup DurationLines \cup
    { <<"===", "Cumulative", "Stats", "===">>,
      <<"===", "Cumulative", "stats", "===">>,
      <<"BytesRead", ":", "2500000">>,
      <<"BytesWritten", ":", "5000000">>,
      <<"Current", "open", "fd">>,
      <<"Fop", "Call", "Count", "Avg-Latency", "Min-Latency", "Max-Latency">> }

(***************************************************************************)
(* The state.                                                              *)
(***************************************************************************)
VARIABLES
    pc,                       \* position in main()
    exc,                      \* the uncaught exception, NoExc if none
    pbench_graphs,            \* module global, from SKIP_PBENCH_GRAPHING
    start_time,               \* globals set by parse_input from the header
    expected_sample_interval,
    expected_sample_count,
    sorted_fop_names,
    intervals,                \* sequence of ProfileInterval
    found_cumulative_output,  \* locals of parse_input
    found_interval_output,
    fop_names,
    last_intvl,
    intvl,
    sample,
    interval_number,
    lineno,                   \* lines of lines[2:] consumed so far
    warnings,                 \* the WARNING lines printed
    dir_ops,                  \* file-system operations of make_out_dir
    files,                    \* output files: name -> rows written
    stat_index,               \* loop index of generate_output over stat_names
    static_link               \* whether the 'static' symlink was made

globals == <<pbench_graphs, start_time, expected_sample_interval,
             expected_sample_count, sorted_fop_names, intervals>>
locals == <<found_cumulative_output, found_interval_output, fop_names,
            last_intvl, intvl, sample, interval_number, lineno,
            warnings>>
outputs == <<dir_ops, files, stat_index, static_link>>
vars == <<pc, exc, globals, locals, outputs>>

\* class FopProfile
FopProfile(avg_lat, min_lat, max_lat, calls) ==
    [avg_lat |-> avg_lat, min_lat |-> min_lat, max_lat |-> max_lat,
     calls |-> calls, pct_lat |-> RatZero]

\* class ProfileInterval
ProfileInterval ==
    [bytes_read |-> None, bytes_written |-> None, duration |-> None,
     fop_profiles |-> <<>>]

Init ==
    /\ pc = "main"
    /\ exc = NoExc
    /\ pbench_graphs \in BOOLEAN
    /\ start_time = None
    /\ expected_sample_interval = None
    /\ expected_sample_count = None
    /\ sorted_fop_names = None
    /\ intervals = None
    /\ found_cumulative_output = FALSE
    /\ found_interval_output = FALSE
    /\ fop_names = {}
    /\ last_intvl = -2
    /\ intvl = -1
    /\ sample = -1
    /\ lineno = 0
    /\ interval_number = None
    /\ warnings = <<>>
    /\ dir_ops = <<>>
    /\ files = <<>>
    /\ stat_index = 0
    /\ static_link = FALSE

\* main going on to make_out_dir after a failure of parse_input
RaiseAndGoOn(fn, type) ==
    /\ pc' = IF fn = "parse_input" THEN "make_out_dir" ELSE "exit"
    /\ exc' = [in |-> fn, type |-> type]

\* an exception that nothing catches ends the process
Raise(fn, type) ==
    /\ pc' = "exit"
    /\ exc' = [in |-> fn, type |-> type]

\* usage(msg): print and sys.exit(1)
usage(fn) == Raise(fn, "SystemExit")

(***************************************************************************)
(* main(), lines 511-516, and the header part of parse_input.              *)
(***************************************************************************)
\* main: the argument check, then the call of parse_input
Main(argc) ==
    /\ pc = "main"
    /\ IF argc < 2 THEN usage("main")
       ELSE pc' = "parse_header" /\ exc' = exc
    /\ UNCHANGED <<globals, locals, outputs>>

\* parse_input up to the loop over lines[2:]
ParseHeader(readable, h) ==
    /\ pc = "parse_header"
    /\ IF ~readable THEN
          /\ usage("parse_input")
          /\ UNCHANGED <<globals, locals>>
       ELSE IF Len(h.tokens) < 2 THEN
          /\ Raise("parse_input", "IndexError")
          /\ UNCHANGED <<globals, locals>>
       ELSE IF ~IsNumeral(h.tokens[1]) \/ ~IsNumeral(h.tokens[2]) THEN
          /\ Raise("parse_input", "ValueError")
          /\ expected_sample_count' =
                IF IsNumeral(h.tokens[1]) THEN NumeralValue[h.tokens[1]]
                ELSE expected_sample_count
          /\ UNCHANGED <<pbench_graphs, start_time, sorted_fop_names,
                         expected_sample_interval, intervals, locals>>
       ELSE IF h.stamp \notin DOMAIN StampSeconds THEN
          /\ Raise("parse_input", "ValueError")
          /\ expected_sample_count' = NumeralValue[h.tokens[1]]
          /\ expected_sample_interval' = NumeralValue[h.tokens[2]]
          /\ UNCHANGED <<pbench_graphs, start_time, sorted_fop_names,
                         intervals, locals>>
       ELSE
          /\ expected_sample_count' = NumeralValue[h.tokens[1]]
          /\ expected_sample_interval' = NumeralValue[h.tokens[2]]
          /\ start_time' = StampSeconds[h.stamp] * 1000
          /\ intervals' = <<>>
          /\ pc' = "parse_input"
          /\ UNCHANGED <<exc, pbench_graphs, sorted_fop_names, locals>>
    /\ UNCHANGED outputs

(***************************************************************************)
(* The loop of parse_input over lines[2:], one action per branch of the    *)
(* if/elif chain.  l is the token sequence of the line read.               *)
(***************************************************************************)
\* ln.__contains__(phrase), on whole tokens
Contains(toks, phrase) ==
    \E i \in 0..(Len(toks) - Len(phrase)) :
        \A j \in 1..Len(phrase) : toks[i + j] = phrase[j]

\* all_caps_name.match(ln) for '^[A-Z]{3,15}'
all_caps_name(toks) ==
    /\ toks # <<>>
    /\ toks[1] \in DOMAIN CharCodes
    /\ Len(CharCodes[toks[1]]) >= 3
    /\ \A i \in 1..3 : CharCodes[toks[1]][i] \in 65..90

\* the branch of the if/elif chain that a line takes: 0 when none
Branch(toks, in_interval) ==
    IF Contains(toks, <<"Interval">>) /\ Contains(toks, <<"stats">>) THEN 1
    ELSE IF Contains(toks, <<"Cumulative", "Stats">>) THEN 2
    ELSE IF Contains(toks, <<"Duration", ":">>) THEN 3
    ELSE IF Contains(toks, <<"BytesRead">>) THEN 4
    ELSE IF Contains(toks, <<"BytesWritten">>) THEN 5
    ELSE IF Contains(toks, <<"Cumulative", "stats">>) THEN 6
    ELSE IF Contains(toks, <<"Current", "open", "fd">>) THEN 7
    ELSE IF in_interval /\ all_caps_name(toks) THEN 8
    ELSE 0

\* the branch of every line of the logs, in and out of the interval block
BranchOf == [l \in Lines, in_interval \in BOOLEAN |-> Branch(l, in_interval)]

\* for ln in lines[2:]: the next line is l and takes the given branch
ReadLine(l, branch) ==
    /\ pc = "parse_input"
    /\ BranchOf[l, found_interval_output] = branch
    /\ lineno' = lineno + 1

\* an interval marker whose number becomes the index of the interval
IntervalStatsLineNumbered(l) ==
    /\ ReadLine(l, 1)
    /\ IF Len(l) < 3 THEN
          /\ Raise("parse_input", "IndexError")
          /\ UNCHANGED <<globals, found_cumulative_output,
                         found_interval_output, fop_names, last_intvl,
                         intvl, sample, interval_number, warnings>>
       ELSE IF ~IsNumeral(l[3]) THEN
          /\ Raise("parse_input", "ValueError")
          /\ UNCHANGED <<globals, found_cumulative_output,
                         found_interval_output, fop_names, last_intvl,
                         intvl, sample, interval_number, warnings>>
       ELSE IF intvl # last_intvl + 1 THEN
          /\ Raise("parse_input", "AssertionError")
          /\ interval_number' = NumeralValue[l[3]]
          /\ UNCHANGED <<globals, found_cumulative_output,
                         found_interval_output, fop_names, last_intvl,
                         intvl, sample, warnings>>
       ELSE
          /\ interval_number' = NumeralValue[l[3]]
          /\ last_intvl' = intvl
          /\ intvl' = NumeralValue[l[3]]
          /\ intervals' = Append(intervals, ProfileInterval)
          /\ found_interval_output' = TRUE
          /\ UNCHANGED <<pc, exc, pbench_graphs, start_time,
                         expected_sample_interval, expected_sample_count,
                         sorted_fop_names, found_cumulative_output,
                         fop_names, sample, warnings>>
    /\ UNCHANGED outputs

\* lines 260-268
IntervalStatsLine(l) ==
    /\ ReadLine(l, 1)
    /\ IF Len(l) < 3 THEN
          /\ Raise("parse_input", "IndexError")
          /\ UNCHANGED <<globals, found_cumulative_output,
                         found_interval_output, fop_names, last_intvl,
                         intvl, sample, interval_number, warnings>>
       ELSE IF ~IsNumeral(l[3]) THEN
          /\ Raise("parse_input", "ValueError")
          /\ UNCHANGED <<globals, found_cumulative_output,
                         found_interval_output, fop_names, last_intvl,
                         intvl, sample, interval_number, warnings>>
       ELSE IF intvl # last_intvl + 1 THEN
          /\ Raise("parse_input", "AssertionError")
          /\ interval_number' = NumeralValue[l[3]]
          /\ UNCHANGED <<globals, found_cumulative_output,
                         found_interval_output, fop_names, last_intvl,
                         intvl, sample, warnings>>
       ELSE
          /\ interval_number' = NumeralValue[l[3]]
          /\ last_intvl' = intvl
          /\ intvl' = intvl + 1
          /\ intervals' = Append(intervals, ProfileInterval)
          /\ found_interval_output' = TRUE
          /\ UNCHANGED <<pc, exc, pbench_graphs, start_time,
                         expected_sample_interval, expected_sample_count,
                         sorted_fop_names, found_cumulative_output,
                         fop_names, sample, warnings>>
    /\ UNCHANGED outputs

\* lines 270-272
CumulativeStatsCapLine(l) ==
    /\ ReadLine(l, 2)
    /\ found_cumulative_output' = TRUE
    /\ UNCHANGED <<pc, exc, globals, found_interval_output, fop_names,
                   last_intvl, intvl, sample, interval_number, warnings,
                   outputs>>

\* abs(duration - expected_sample_interval)
Abs(x) == IF x < 0 THEN -x ELSE x

\* a warning is printed for every duration that is not the configured one
DurationWarningStrict(duration) ==
    IF Abs(duration - expected_sample_interval) > 0
    THEN <<[sample |-> sample, duration |-> duration,
            expected |-> expected_sample_interval]>>
    ELSE <<>>

\* lines 280-285: the warning printed for a duration, if any
DurationWarning(duration) ==
    IF Abs(duration - expected_sample_interval) > 1
    THEN <<[sample |-> sample, duration |-> duration,
            expected |-> expected_sample_interval]>>
    ELSE <<>>

\* lines 274-287
DurationLine(l) ==
    /\ ReadLine(l, 3)
    /\ IF found_cumulative_output = found_interval_output THEN
          /\ Raise("parse_input", "AssertionError")
          /\ UNCHANGED <<intervals, warnings>>
       ELSE IF Len(l) < 3 THEN
          /\ Raise("parse_input", "IndexError")
          /\ UNCHANGED <<intervals, warnings>>
       ELSE IF ~IsNumeral(l[3]) THEN
          /\ Raise("parse_input", "ValueError")
          /\ UNCHANGED <<intervals, warnings>>
       ELSE
          LET duration == NumeralValue[l[3]]
          IN  /\ IF found_interval_output THEN
                    /\ warnings' = warnings \o DurationWarning(duration)
                    /\ intervals' =
                          [intervals EXCEPT ![intvl + 1].duration = duration]
                 ELSE UNCHANGED <<intervals, warnings>>
              /\ UNCHANGED <<pc, exc>>
    /\ UNCHANGED <<pbench_graphs, start_time, expected_sample_interval,
                   expected_sample_count, sorted_fop_names,
                   found_cumulative_output, found_interval_output,
                   fop_names, last_intvl, intvl, sample, interval_number,
                   outputs>>

\* lines 289-293 (branch 4, bytes_read) and 295-299 (branch 5, bytes_written)
BytesLine(branch, l) ==
    /\ ReadLine(l, branch)
    /\ IF ~found_interval_output THEN UNCHANGED <<pc, exc, intervals>>
       ELSE IF Len(l) < 3 THEN
          Raise("parse_input", "IndexError") /\ UNCHANGED intervals
       ELSE IF ~IsNumeral(l[3]) THEN
          Raise("parse_input", "ValueError") /\ UNCHANGED intervals
       ELSE
          /\ intervals' =
                IF branch = 4
                THEN [intervals EXCEPT
                        ![intvl + 1].bytes_read = NumeralValue[l[3]]]
                ELSE [intervals EXCEPT
                        ![intvl + 1].bytes_written = NumeralValue[l[3]]]
          /\ UNCHANGED <<pc, exc>>
    /\ UNCHANGED <<pbench_graphs, start_time, expected_sample_interval,
                   expected_sample_count, sorted_fop_names,
                   found_cumulative_output, found_interval_output,
                   fop_names, last_intvl, intvl, sample, interval_number,
                   warnings, outputs>>

BytesReadLine(l) == BytesLine(4, l)

BytesWrittenLine(l) == BytesLine(5, l)

\* lines 301-306
CumulativeStatsLine(l) ==
    /\ ReadLine(l, 6)
    /\ found_interval_output' = FALSE
    /\ found_cumulative_output' = TRUE
    /\ UNCHANGED <<pc, exc, globals, fop_names, last_intvl, intvl,
                   sample, interval_number, warnings, outputs>>

\* the end of the cumulative block forgetting the names seen so far
CurrentOpenFdLineForgetting(l) ==
    /\ ReadLine(l, 7)
    /\ found_cumulative_output' = FALSE
    /\ fop_names' = {}
    /\ UNCHANGED <<pc, exc, globals, found_interval_output, last_intvl,
                   intvl, sample, interval_number, warnings, outputs>>

\* lines 308-310
CurrentOpenFdLine(l) ==
    /\ ReadLine(l, 7)
    /\ found_cumulative_output' = FALSE
    /\ UNCHANGED <<pc, exc, globals, found_interval_output, fop_names,
                   last_intvl, intvl, sample, interval_number, warnings,
                   outputs>>

\* a store that replaces the record of a name already present
StoreFopOverwrite(fop_profiles, fop_name, new_fop_profile) ==
    [raised |-> FALSE,
     fop_profiles |->
         [f \in DOMAIN fop_profiles \cup {fop_name} |->
             IF f = fop_name THEN new_fop_profile ELSE fop_profiles[f]]]

\* lines 324-329: the lookup of fop_name, and the store when it is absent
StoreFop(fop_profiles, fop_name, new_fop_profile) ==
    IF fop_name \in DOMAIN fop_profiles
    THEN [raised |-> TRUE, fop_profiles |-> fop_profiles]
    ELSE [raised |-> FALSE,
          fop_profiles |->
              [f \in DOMAIN fop_profiles \cup {fop_name} |->
                  IF f = fop_name THEN new_fop_profile ELSE fop_profiles[f]]]

\* lines 312-329
FopLine(l) ==
    /\ ReadLine(l, 8)
    /\ sample' = sample + 1
    /\ fop_names' = fop_names \cup {l[1]}
    /\ IF Len(l) < 7 THEN
          Raise("parse_input", "IndexError") /\ UNCHANGED intervals
       ELSE IF \E i \in {2, 3, 5, 7} : ~IsNumeral(l[i]) THEN
          Raise("parse_input", "ValueError") /\ UNCHANGED intervals
       ELSE
          LET new_fop_profile ==
                  FopProfile(NumeralValue[l[3]], NumeralValue[l[5]],
                             NumeralValue[l[7]], NumeralValue[l[2]])
              stored == StoreFop(intervals[intvl + 1].fop_profiles, l[1],
                                 new_fop_profile)
          IN  IF stored.raised THEN
                  Raise("parse_input", "Exception") /\ UNCHANGED intervals
              ELSE
                  /\ intervals' =
                        [intervals EXCEPT
                            ![intvl + 1].fop_profiles = stored.fop_profiles]
                  /\ UNCHANGED <<pc, exc>>
    /\ UNCHANGED <<pbench_graphs, start_time, expected_sample_interval,
                   expected_sample_count, sorted_fop_names,
                   found_cumulative_output, found_interval_output,
                   last_intvl, intvl, interval_number, warnings, outputs>>

\* a parser that fails on a line it does not recognize
IgnoredLineFatal(l) ==
    /\ ReadLine(l, 0)
    /\ Raise("parse_input", "Exception")
    /\ UNCHANGED <<globals, found_cumulative_output, found_interval_output,
                   fop_names, last_intvl, intvl, sample, interval_number,
                   warnings, outputs>>

\* a line that matches no branch changes nothing
IgnoredLine(l) ==
    /\ ReadLine(l, 0)
    /\ UNCHANGED <<pc, exc, globals, found_cumulative_output,
                   found_interval_output, fop_names, last_intvl, intvl,
                   sample, interval_number, warnings, outputs>>

\* line 330, at the end of lines[2:]; main goes on to make_out_dir
EndOfLines ==
    /\ pc = "parse_input"
    /\ sorted_fop_names' = sorted(fop_names)
    /\ pc' = "make_out_dir"
    /\ UNCHANGED <<exc, pbench_graphs, start_time, expected_sample_interval,
                   expected_sample_count, intervals, locals, outputs>>

(***************************************************************************)
(* Class FopProfile: accumulate, normalize_sum, get_pct_lat, field2str.    *)
(***************************************************************************)
Max(a, b) == IF a >= b THEN a ELSE b

Min(a, b) == IF a <= b THEN a ELSE b

\* a sum of the average latencies that is not weighted by the calls
accumulateUnweighted(self, addend) ==
    [self EXCEPT
        !.avg_lat = @ + addend.avg_lat,
        !.calls = @ + addend.calls,
        !.max_lat = IF addend.calls > 0 THEN Max(@, addend.max_lat) ELSE @,
        !.min_lat = IF addend.calls > 0 THEN Min(@, addend.min_lat) ELSE @]

\* lines 158-163
accumulate(self, addend) ==
    [self EXCEPT
        !.avg_lat = @ + (addend.avg_lat * addend.calls),
        !.calls = @ + addend.calls,
        !.max_lat = IF addend.calls > 0 THEN Max(@, addend.max_lat) ELSE @,
        !.min_lat = IF addend.calls > 0 THEN Min(@, addend.min_lat) ELSE @]

\* lines 167-173: the weighted sum becomes an average (a rational)
normalize_sum(self) ==
    IF self.calls = 0
    THEN [self EXCEPT !.pct_lat = RatZero, !.avg_lat = RatZero]
    ELSE [self EXCEPT !.avg_lat = Rat(@, self.calls)]

\* get_pct_lat leaving the weighted latency in avg_lat
get_pct_lat_weighted(self, total_lat) ==
    IF total_lat.n = 0
    THEN [self EXCEPT !.pct_lat = RatZero]
    ELSE [self EXCEPT
            !.pct_lat = IntDivRat(100 * (self.avg_lat * self.calls), total_lat),
            !.avg_lat = self.avg_lat * self.calls]

\* lines 177-181: total_lat is a rational
get_pct_lat(self, total_lat) ==
    IF total_lat.n = 0
    THEN [self EXCEPT !.pct_lat = RatZero]
    ELSE [self EXCEPT
            !.pct_lat = IntDivRat(100 * (self.avg_lat * self.calls), total_lat)]

\* lines 137-154: the field, or the exception float(duration) or the division
\* raises
field2str(self, stat, duration) ==
    IF stat = stat_names[1] THEN
        [raised |-> "", str |-> PadRight(FixedStr(self.pct_lat, 2), 6)]
    ELSE IF stat = stat_names[2] THEN
        [raised |-> "", str |-> PadLeft(FixedStr(RatOfInt(self.avg_lat), 0), 8)]
    ELSE IF stat = stat_names[3] THEN
        IF self.min_lat = min_lat_infinity
        THEN [raised |-> "", str |-> ""]
        ELSE [raised |-> "",
              str |-> PadLeft(FixedStr(RatOfInt(self.min_lat), 0), 8)]
    ELSE IF stat = stat_names[4] THEN
        IF self.max_lat = 0
        THEN [raised |-> "", str |-> ""]
        ELSE [raised |-> "",
              str |-> PadLeft(FixedStr(RatOfInt(self.max_lat), 0), 8)]
    ELSE IF stat = stat_names[5] THEN
        IF duration = None THEN [raised |-> "TypeError", str |-> ""]
        ELSE IF duration = 0 THEN [raised |-> "ZeroDivisionError", str |-> ""]
        ELSE [raised |-> "",
              str |-> PadLeft(FixedStr(Rat(self.calls, duration), 3), 10)]
    ELSE [raised |-> "", str |-> None]

(***************************************************************************)
(* Output.  A file is the sequence of the rows written to it; a row is the *)
(* text prefix \o ','.join(columns), ended by a newline when eol.          *)
(***************************************************************************)
Row(prefix, columns, eol) ==
    [prefix |-> prefix, columns |-> columns, eol |-> eol]

\* lines 336-337
gen_timestamp_ms(sample_index) ==
    start_time + ((expected_sample_interval * sample_index) * 1000)

\* '%d, ' % gen_timestamp_ms(j) when pbench_graphs, for the interval at
\* Python index j
TimestampPrefix(j) ==
    IF pbench_graphs THEN DecStr(gen_timestamp_ms(j)) \o ", " ELSE ""

\* lines 342-346
get_interval(interval_index, duration_type) ==
    IF duration_type = "cumulative"
    THEN interval_index * expected_sample_interval
    ELSE expected_sample_interval

\* lines 367-370
Transfer(direction, interval_profile) ==
    IF direction = "MBps-read" THEN interval_profile.bytes_read
    ELSE interval_profile.bytes_written

\* lines 362-372: the rows for the intervals from TLA+ index j on
RECURSIVE BytesRows(_, _, _)
BytesRows(direction, j, rows) ==
    IF j > Len(intervals) THEN [raised |-> "", rows |-> rows]
    ELSE
        LET rate_interval == get_interval(j - 1, "interval")
            transfer == Transfer(direction, intervals[j])
            started == IF pbench_graphs
                       THEN Append(rows, Row(TimestampPrefix(j - 1), <<>>, FALSE))
                       ELSE rows
        IN  IF transfer = None THEN
                [raised |-> "TypeError", rows |-> started]
            ELSE IF rate_interval = 0 THEN
                [raised |-> "ZeroDivisionError", rows |-> started]
            ELSE
                BytesRows(direction, j + 1,
                    Append(rows,
                        Row(TimestampPrefix(j - 1),
                            <<PadRight(
                                FixedStr(Rat(transfer,
                                             rate_interval * bytes_per_MB), 3),
                                8)>>,
                            TRUE)))

\* lines 356-372: one direction's file
BytesFile(direction) ==
    BytesRows(direction, 1,
        <<Row(IF pbench_graphs THEN "timestamp_ms, " ELSE "", <<"MB/s">>, TRUE)>>)

\* lines 351-372
GenOutputBytes ==
    /\ pc = "gen_output_bytes"
    /\ LET rd == BytesFile(directions[1])
           wr == BytesFile(directions[2])
       IN  IF rd.raised # "" THEN
               /\ files' = ("MBps-read.csv" :> rd.rows) @@ files
               /\ Raise("gen_output_bytes", rd.raised)
           ELSE IF wr.raised # "" THEN
               /\ files' = ("MBps-read.csv" :> rd.rows) @@
                           ("MBps-written.csv" :> wr.rows) @@ files
               /\ Raise("gen_output_bytes", wr.raised)
           ELSE
               /\ files' = ("MBps-read.csv" :> rd.rows) @@
                           ("MBps-written.csv" :> wr.rows) @@ files
               /\ pc' = "gen_per_fop_stats"
               /\ exc' = exc
    /\ UNCHANGED <<globals, locals, dir_ops, stat_index, static_link>>

\* lines 209-217
MakeOutDir ==
    /\ pc = "make_out_dir"
    /\ \E existed \in BOOLEAN, io_error \in BOOLEAN :
          IF io_error THEN
              /\ usage("make_out_dir")
              /\ UNCHANGED dir_ops
          ELSE
              /\ dir_ops' = IF existed THEN <<"rmtree", "mkdir">>
                            ELSE <<"mkdir">>
              /\ pc' = "gen_output_bytes"
              /\ exc' = exc
    /\ UNCHANGED <<globals, locals, files, stat_index, static_link>>

(***************************************************************************)
(* gen_per_fop_stats, lines 376-410.                                       *)
(***************************************************************************)
\* lines 389-392: all_fop_profile after the loop over the names
RECURSIVE AccumulateAll(_, _, _)
AccumulateAll(names, fops_in_interval, all_fop_profile) ==
    IF names = <<>> THEN all_fop_profile
    ELSE AccumulateAll(Tail(names), fops_in_interval,
             accumulate(all_fop_profile, fops_in_interval[Head(names)]))

\* the column computed with the configured sampling interval
FopColumnExpectedInterval(fop_stats, stat, interval_profile) ==
    field2str(fop_stats, stat, get_interval(0, "interval"))

\* lines 407-409: the column of one operation
FopColumn(fop_stats, stat, interval_profile) ==
    field2str(fop_stats, stat, interval_profile.duration)

\* lines 399-409: the loop over the names that fills columns
RECURSIVE FopColumns(_, _, _, _, _)
FopColumns(names, interval_profile, total_lat, stat, columns) ==
    IF names = <<>>
    THEN [raised |-> "", interval |-> interval_profile, columns |-> columns]
    ELSE
        LET fop == Head(names)
            fop_stats == get_pct_lat(interval_profile.fop_profiles[fop],
                                     total_lat)
            updated == [interval_profile EXCEPT !.fop_profiles[fop] = fop_stats]
            column == FopColumn(fop_stats, stat, updated)
        IN  IF column.raised # ""
            THEN [raised |-> column.raised, interval |-> updated,
                  columns |-> columns]
            ELSE FopColumns(Tail(names), updated, total_lat, stat,
                            Append(columns, column.str))

\* lines 386-410: the loop over the intervals from TLA+ index i on
RECURSIVE PerFopRows(_, _, _, _)
PerFopRows(i, ivs, rows, stat) ==
    IF i > Len(ivs) THEN [raised |-> "", intervals |-> ivs, rows |-> rows]
    ELSE IF \E k \in 1..Len(sorted_fop_names) :
                sorted_fop_names[k] \notin DOMAIN ivs[i].fop_profiles THEN
        [raised |-> "KeyError", intervals |-> ivs, rows |-> rows]
    ELSE
        LET all_fop_profile ==
                normalize_sum(
                    AccumulateAll(sorted_fop_names, ivs[i].fop_profiles,
                                  FopProfile(0, 0, 0, 0)))
            total_lat == RatMulInt(all_fop_profile.avg_lat,
                                   all_fop_profile.calls)
            cols == FopColumns(sorted_fop_names, ivs[i], total_lat, stat, <<>>)
            updated == [ivs EXCEPT ![i] = cols.interval]
        IN  IF cols.raised # "" THEN
                [raised |-> cols.raised, intervals |-> updated,
                 rows |-> IF pbench_graphs
                          THEN Append(rows,
                                   Row(TimestampPrefix(i - 1), <<>>, FALSE))
                          ELSE rows]
            ELSE
                PerFopRows(i + 1, updated,
                    Append(rows,
                        Row(TimestampPrefix(i - 1), cols.columns, TRUE)),
                    stat)

\* gen_per_fop_stats writing the data rows without the header row
GenPerFopStatsHeaderless ==
    /\ pc = "gen_per_fop_stats"
    /\ LET stat == stat_names[stat_index + 1]
           per_fop_filename == stat \o ".csv"
           out == PerFopRows(1, intervals, <<>>, stat)
           old == IF per_fop_filename \in DOMAIN files
                  THEN files[per_fop_filename] ELSE <<>>
       IN  /\ files' = (per_fop_filename :> (old \o out.rows)) @@ files
           /\ intervals' = out.intervals
           /\ IF out.raised # "" THEN
                  /\ Raise("gen_per_fop_stats", out.raised)
                  /\ UNCHANGED stat_index
              ELSE
                  /\ stat_index' = stat_index + 1
                  /\ pc' = IF stat_index + 1 = Len(stat_names)
                           THEN "gen_graphs" ELSE "gen_per_fop_stats"
                  /\ exc' = exc
    /\ UNCHANGED <<pbench_graphs, start_time, expected_sample_interval,
                   expected_sample_count, sorted_fop_names, locals, dir_ops,
                   static_link>>

\* lines 376-410, for stat_names[stat_index] in the loop of generate_output
GenPerFopStats ==
    /\ pc = "gen_per_fop_stats"
    /\ LET stat == stat_names[stat_index + 1]
           per_fop_filename == stat \o ".csv"
           hdr == Row(IF pbench_graphs THEN "timestamp_ms, " ELSE "",
                      sorted_fop_names, TRUE)
           out == PerFopRows(1, intervals, <<hdr>>, stat)
           old == IF per_fop_filename \in DOMAIN files
                  THEN files[per_fop_filename] ELSE <<>>
       IN  /\ files' = (per_fop_filename :> (old \o out.rows)) @@ files
           /\ intervals' = out.intervals
           /\ IF out.raised # "" THEN
                  /\ Raise("gen_per_fop_stats", out.raised)
                  /\ UNCHANGED stat_index
              ELSE
                  /\ stat_index' = stat_index + 1
                  /\ pc' = IF stat_index + 1 = Len(stat_names)
                           THEN "gen_graphs" ELSE "gen_per_fop_stats"
                  /\ exc' = exc
    /\ UNCHANGED <<pbench_graphs, start_time, expected_sample_interval,
                   expected_sample_count, sorted_fop_names, locals, dir_ops,
                   static_link>>

\* lines 464-471: the page names the .csv file of every graph
GenGraphs ==
    /\ pc = "gen_graphs"
    /\ files' = ("gvp-client-graphs.html" :>
                    <<Row("", graph_csvs, TRUE)>>) @@ files
    /\ pc' = "gen_static_softlink"
    /\ UNCHANGED <<exc, globals, locals, dir_ops, stat_index, static_link>>

\* lines 479-487, and the summary that ends generate_output and main
GenStaticSoftlink ==
    /\ pc = "gen_static_softlink"
    /\ static_link' = TRUE
    /\ pc' = "done"
    /\ UNCHANGED <<exc, globals, locals, dir_ops, files, stat_index>>

(***************************************************************************)
(* The program on a log of arbitrary lines, at most MaxLines long.         *)
(***************************************************************************)
GenerateOutput ==
    \/ GenOutputBytes
    \/ GenPerFopStats
    \/ GenGraphs
    \/ GenStaticSoftlink

Next ==
    \/ \E argc \in {1, 2} : Main(argc)
    \/ \E readable \in BOOLEAN, h \in Headers : ParseHeader(readable, h)
    \/ \E l \in Lines : lineno < MaxLines /\ IntervalStatsLine(l)
    \/ \E l \in Lines : lineno < MaxLines /\ CumulativeStatsCapLine(l)
    \/ \E l \in Lines : lineno < MaxLines /\ DurationLine(l)
    \/ \E l \in Lines : lineno < MaxLines /\ BytesReadLine(l)
    \/ \E l \in Lines : lineno < MaxLines /\ BytesWrittenLine(l)
    \/ \E l \in Lines : lineno < MaxLines /\ CumulativeStatsLine(l)
    \/ \E l \in Lines : lineno < MaxLines /\ CurrentOpenFdLine(l)
    \/ \E l \in Lines : lineno < MaxLines /\ FopLine(l)
    \/ \E l \in Lines : lineno < MaxLines /\ IgnoredLine(l)
    \/ EndOfLines
    \/ MakeOutDir
    \/ GenerateOutput

Spec == Init /\ [][Next]_vars

(***************************************************************************)
(* The program on a well-formed log: a well-formed header, then at most    *)
(* MaxIntervals snapshots, each an 'Interval k stats' marker numbered in   *)
(* order, operation rows with distinct names and numeric fields, a         *)
(* 'Duration :' line, a 'BytesRead' and a 'BytesWritten' line, a           *)
(* 'Cumulative stats' marker and a 'Current open fd' line.                 *)
(***************************************************************************)
GoodHeader == [tokens |-> <<"10", "5">>, stamp |-> GoodStamp]

\* the line l can come next in a well-formed log
WellPlaced(l) ==
    LET branch == BranchOf[l, found_interval_output]
        cur == intervals[intvl + 1]
    IN  CASE branch = 1 ->
                /\ ~found_interval_output /\ ~found_cumulative_output
                /\ Len(intervals) < MaxIntervals
                /\ IsNumeral(l[3]) /\ NumeralValue[l[3]] = Len(intervals)
          [] branch = 3 ->
                /\ found_interval_output /\ ~found_cumulative_output
                /\ cur.duration = None
          [] branch = 4 ->
                /\ found_interval_output
                /\ cur.duration # None /\ cur.bytes_read = None
          [] branch = 5 ->
                /\ found_interval_output
                /\ cur.bytes_read # None /\ cur.bytes_written = None
          [] branch = 6 ->
                found_interval_output /\ cur.bytes_written # None
          [] branch = 7 ->
                found_cumulative_output /\ ~found_interval_output
          [] branch = 8 ->
                /\ cur.duration = None
                /\ l[1] \notin DOMAIN cur.fop_profiles
                /\ \A i \in {2, 3, 5, 7} : IsNumeral(l[i])
          [] OTHER -> FALSE

WellPlacedLine(l) == pc = "parse_input" /\ WellPlaced(l)

NextWellFormed ==
    \/ Main(2)
    \/ ParseHeader(TRUE, GoodHeader)
    \/ \E l \in Lines : IntervalStatsLine(l) /\ WellPlacedLine(l)
    \/ \E l \in Lines : FopLine(l) /\ WellPlacedLine(l)
    \/ \E l \in Lines : DurationLine(l) /\ WellPlacedLine(l)
    \/ \E l \in Lines : BytesReadLine(l) /\ WellPlacedLine(l)
    \/ \E l \in Lines : BytesWrittenLine(l) /\ WellPlacedLine(l)
    \/ \E l \in Lines : CumulativeStatsLine(l) /\ WellPlacedLine(l)
    \/ \E l \in Lines : CurrentOpenFdLine(l) /\ WellPlacedLine(l)
    \/ ~found_interval_output /\ ~found_cumulative_output /\ EndOfLines
    \/ MakeOutDir
    \/ GenerateOutput

SpecWellFormed == Init /\ [][NextWellFormed]_vars

(***************************************************************************)
(* main and parse_input on a well-formed log whose cumulative blocks hold  *)
(* rows and 'Duration :' lines, which the loop reads to the end of the     *)
(* file: the interpreter does not stop in the middle of the loop.          *)
(***************************************************************************)
\* the line l, a row with numeric fields or a 'Duration :' line, can come
\* next in the cumulative block of a well-formed log
CumulativeLine(l) ==
    /\ pc = "parse_input"
    /\ found_cumulative_output /\ ~found_interval_output
    /\ lineno < MaxLogLines
    /\ \/ BranchOf[l, TRUE] = 3
       \/ BranchOf[l, TRUE] = 8 /\ \A i \in {2, 3, 5, 7} : IsNumeral(l[i])

WellPlacedInLog(l) == WellPlacedLine(l) \/ CumulativeLine(l)

\* the lines of the logs by what they are: 1 the interval markers, 3 the
\* durations, 4 and 5 the byte counters, 6 and 7 the ends of the two blocks,
\* 8 the operation rows
LinesOfKind == [k \in 0..8 |-> { l \in Lines : BranchOf[l, TRUE] = k }]

NextParseWellFormed ==
    \/ Main(2)
    \/ ParseHeader(TRUE, GoodHeader)
    \/ \E l \in LinesOfKind[1] : IntervalStatsLine(l) /\ WellPlacedInLog(l)
    \/ \E l \in LinesOfKind[8] : FopLine(l) /\ WellPlacedInLog(l)
    \/ \E l \in LinesOfKind[3] : DurationLine(l) /\ WellPlacedInLog(l)
    \/ \E l \in LinesOfKind[4] : BytesReadLine(l) /\ WellPlacedInLog(l)
    \/ \E l \in LinesOfKind[5] : BytesWrittenLine(l) /\ WellPlacedInLog(l)
    \/ \E l \in LinesOfKind[6] : CumulativeStatsLine(l) /\ WellPlacedInLog(l)
    \/ \E l \in LinesOfKind[7] : CurrentOpenFdLine(l) /\ WellPlacedInLog(l)
    \/ \E l \in LinesOfKind[8] : IgnoredLine(l) /\ WellPlacedInLog(l)
    \/ ~found_interval_output /\ ~found_cumulative_output /\ EndOfLines

SpecParseWellFormed ==
    Init /\ [][NextParseWellFormed]_vars /\ WF_vars(NextParseWellFormed)

(***************************************************************************)
(* Properties.                                                             *)
(***************************************************************************)
\* parse_input has read the header and entered (or left) its loop
HeaderParsed == start_time # None

\* parse_input has returned to main
ParseReturned ==
    \/ pc \in {"make_out_dir", "gen_output_bytes", "gen_per_fop_stats",
               "gen_graphs", "gen_static_softlink", "done"}
    \/ pc = "exit" /\ exc.in \in {"make_out_dir", "gen_output_bytes",
                                  "gen_per_fop_stats"}

\* the file has a complete row for the interval at TLA+ index i
HasDataRow(name, i) ==
    /\ name \in DOMAIN files
    /\ Len(files[name]) >= i + 1
    /\ files[name][i + 1].eol

\* the sum of avg_lat * calls over the operations S of one interval
RECURSIVE TotalLatency(_, _)
TotalLatency(fop_profiles, S) ==
    IF S = {} THEN 0
    ELSE LET f == CHOOSE x \in S : TRUE
         IN  fop_profiles[f].avg_lat * fop_profiles[f].calls
                + TotalLatency(fop_profiles, S \ {f})

\* C1: while parse_input reads lines the two block flags are never both
\* true, and both are false before the first 'Interval N stats' line.
C1_FlagsExclusive ==
    (HeaderParsed /\ pc = "parse_input") =>
        /\ ~(found_interval_output /\ found_cumulative_output)
        /\ (intervals = <<>> =>
               ~found_interval_output /\ ~found_cumulative_output)

\* C2: an 'Interval <n> stats' line whose number is not the index of the
\* interval it opens makes parse_input fail: as long as parse_input has not
\* failed, the number of the last marker read is the index of the last
\* interval.
C2_MarkersInSequence ==
    (HeaderParsed /\ exc.in # "parse_input" /\ interval_number # None) =>
        interval_number = intvl

\* C3: an operation row read in the interval block whose name is already a
\* key of the current interval makes parse_input fail and leaves every
\* interval as it was; a row with numeric fields whose name is new is stored
\* under its name, next to the records already there.
C3_DuplicateFopFatal ==
    [][\A l \in Lines :
          FopLine(l) =>
              LET cur == intervals[intvl + 1].fop_profiles
                  new == intervals'[intvl + 1].fop_profiles
              IN  IF l[1] \in DOMAIN cur THEN
                      /\ pc' = "exit"
                      /\ exc'.in = "parse_input"
                      /\ intervals' = intervals
                  ELSE
                      (\A i \in {2, 3, 5, 7} : IsNumeral(l[i])) =>
                          /\ pc' = "parse_input"
                          /\ exc' = NoExc
                          /\ DOMAIN new = DOMAIN cur \cup {l[1]}
                          /\ \A f \in DOMAIN cur : new[f] = cur[f]
                          /\ new[l[1]].calls = NumeralValue[l[2]]
                          /\ new[l[1]].avg_lat = NumeralValue[l[3]]
                          /\ new[l[1]].min_lat = NumeralValue[l[5]]
                          /\ new[l[1]].max_lat = NumeralValue[l[7]]
                          /\ \A k \in 1..Len(intervals) :
                                k # intvl + 1 => intervals'[k] = intervals[k]
      ]_vars

\* a duplicate row has ended parse_input with its Exception, in an interval
\* that keeps the record stored first
C3_Witness ==
    /\ exc = [in |-> "parse_input", type |-> "Exception"]
    /\ "READ" \in DOMAIN intervals[intvl + 1].fop_profiles

\* C4: when parse_input returns, every interval has the full set of
\* operation names of the log as its keys.
C4_IncompleteLogRejected ==
    ParseReturned =>
        \A i \in 1..Len(intervals) :
            DOMAIN intervals[i].fop_profiles = fop_names

\* C5: when parse_input has failed, no output directory was created or
\* removed, no output file was written, and the program has ended.
C5_NoOutputAfterParseFailure ==
    exc.in = "parse_input" =>
        /\ pc = "exit"
        /\ dir_ops = <<>>
        /\ files = <<>>
        /\ stat_index = 0
        /\ ~static_link

\* parse_input has failed on a header without the interval field
C5_Witness ==
    /\ exc = [in |-> "parse_input", type |-> "IndexError"]
    /\ ~HeaderParsed

\* the pct_lat that C6 states for an operation of an interval
ExpectedPctLat(fop_profiles, f) ==
    LET T == TotalLatency(fop_profiles, DOMAIN fop_profiles)
    IN  IF T = 0 THEN RatZero
        ELSE Rat(100 * (fop_profiles[f].avg_lat * fop_profiles[f].calls), T)

\* the interval of the example: READ(calls=10, avg=100), WRITE(calls=5, avg=200)
IsExampleInterval(fop_profiles) ==
    /\ DOMAIN fop_profiles = {"READ", "WRITE"}
    /\ fop_profiles["READ"].calls = 10 /\ fop_profiles["READ"].avg_lat = 100
    /\ fop_profiles["WRITE"].calls = 5 /\ fop_profiles["WRITE"].avg_lat = 200

\* C6: once gen_per_fop_stats has processed an interval, the pct_lat of each
\* of its operations is 100 * avg_lat * calls / T, T the sum of avg_lat *
\* calls over the interval, and 0 when T is 0; an operation with no calls
\* has 0, and both operations of the example interval have 50.
C6_PctLat ==
    \A i \in 1..(IF HeaderParsed THEN Len(intervals) ELSE 0) :
        HasDataRow("pct-lat.csv", i) =>
            LET fops == intervals[i].fop_profiles
            IN  /\ \A f \in DOMAIN fops :
                      /\ fops[f].pct_lat = ExpectedPctLat(fops, f)
                      /\ fops[f].calls = 0 => fops[f].pct_lat = RatZero
                /\ IsExampleInterval(fops) =>
                      /\ fops["READ"].pct_lat = RatOfInt(50)
                      /\ fops["WRITE"].pct_lat = RatOfInt(50)

\* the example interval and an interval whose only operation has no calls
\* have both been processed
C6_Witness ==
    /\ HeaderParsed
    /\ Len(intervals) = 2
    /\ HasDataRow("pct-lat.csv", 1) /\ HasDataRow("pct-lat.csv", 2)
    /\ IsExampleInterval(intervals[1].fop_profiles)
    /\ intervals[1].fop_profiles["READ"].pct_lat = RatOfInt(50)
    /\ intervals[2].fop_profiles["READ"].calls = 0
    /\ intervals[2].fop_profiles["WRITE"].pct_lat = RatOfInt(100)

\* C7: in the min-lat and max-lat tables the field of an operation with
\* calls == 0 is the empty string.
C7_ZeroCallsRenderEmpty ==
    \A name \in {"min-lat.csv", "max-lat.csv"} :
        \A i \in 1..(IF HeaderParsed THEN Len(intervals) ELSE 0) :
            HasDataRow(name, i) =>
                \A k \in 1..Len(sorted_fop_names) :
                    intervals[i].fop_profiles[sorted_fop_names[k]].calls = 0
                        => files[name][i + 1].columns[k] = ""

\* C8: the value of an interval in a byte table is its bytes divided by its
\* own recorded duration and by 1,000,000, to 3 decimal places.
C8_BytesOverRecordedDuration ==
    \A d \in 1..Len(directions) :
        \A i \in 1..(IF HeaderParsed THEN Len(intervals) ELSE 0) :
            (HasDataRow(directions[d] \o ".csv", i)
                /\ intervals[i].duration # None) =>
                files[directions[d] \o ".csv"][i + 1].columns =
                    <<PadRight(
                        FixedStr(Rat(Transfer(directions[d], intervals[i]),
                                     intervals[i].duration * 1000000), 3),
                        8)>>

C10_CumulativeMarkerEndsIntervalBlock ==
    [][\A l \in Lines :
          (found_interval_output
              /\ (CumulativeStatsCapLine(l) \/ CumulativeStatsLine(l))) =>
              (~found_interval_output' /\ found_cumulative_output')
      ]_vars

\* what a line is, whatever the state it is read in: 1 an interval marker,
\* 3 a duration, 4 and 5 the byte counters, 8 an operation row
Kind(l) == BranchOf[l, TRUE]

\* the parser is in the interval block: the interval flag alone is true
InIntervalBlock == found_interval_output /\ ~found_cumulative_output

\* C11: a 'Duration :' line read in the interval block is never fatal: the
\* parser stays in its loop without an exception, the duration is recorded
\* in the current interval and nothing else of the intervals, the flags, the
\* counters or the name set changes; exactly one warning, carrying the
\* duration and the configured interval, is printed when the two differ by
\* more than 1, and none when they differ by at most 1.
C11_DurationWarningNotFatal ==
    [][\A l \in Lines :
          (InIntervalBlock /\ Kind(l) = 3 /\ DurationLine(l)) =>
              LET duration == NumeralValue[l[3]]
              IN  /\ pc' = "parse_input"
                  /\ exc' = NoExc
                  /\ intervals' =
                        [intervals EXCEPT ![Len(intervals)].duration = duration]
                  /\ UNCHANGED <<found_cumulative_output,
                                 found_interval_output, fop_names, last_intvl,
                                 intvl, sample, outputs>>
                  /\ IF Abs(duration - expected_sample_interval) > 1
                     THEN /\ Len(warnings') = Len(warnings) + 1
                          /\ SubSeq(warnings', 1, Len(warnings)) = warnings
                          /\ warnings'[Len(warnings')].duration = duration
                          /\ warnings'[Len(warnings')].expected =
                                expected_sample_interval
                     ELSE warnings' = warnings
      ]_vars

\* a deviating duration has been warned about and recorded, a duration one
\* second off has been recorded without a warning, and the parser is still
\* reading
C11_Witness ==
    /\ pc = "parse_input"
    /\ exc = NoExc
    /\ Len(intervals) = 2
    /\ intervals[1].duration = 7
    /\ intervals[2].duration = 6
    /\ Len(warnings) = 1
    /\ warnings[1].duration = 7

\* gen_per_fop_stats has returned for the statistic stat_names[s]
StatTableWritten(s) == HeaderParsed /\ s <= stat_index

\* C12: the table of every statistic that gen_per_fop_stats has written is
\* one header row, the (optional) timestamp title then the names of
\* sorted_fop_names, followed by one complete data row per interval, in
\* interval order; every data row has one column per name of
\* sorted_fop_names, and column k is the field of the k-th name.
C12_TableShape ==
    \A s \in 1..Len(stat_names) :
        StatTableWritten(s) =>
            LET name == stat_names[s] \o ".csv"
            IN  /\ name \in DOMAIN files
                /\ Len(files[name]) = Len(intervals) + 1
                /\ files[name][1] =
                      Row(IF pbench_graphs THEN "timestamp_ms, " ELSE "",
                          sorted_fop_names, TRUE)
                /\ \A i \in 1..Len(intervals) :
                      LET row == files[name][i + 1]
                      IN  /\ row.eol
                          /\ row.prefix = TimestampPrefix(i - 1)
                          /\ Len(row.columns) = Len(sorted_fop_names)
                          /\ \A k \in 1..Len(sorted_fop_names) :
                                row.columns[k] =
                                    field2str(
                                        intervals[i].fop_profiles[
                                            sorted_fop_names[k]],
                                        stat_names[s],
                                        intervals[i].duration).str

\* all five tables are written for two intervals and two operation names,
\* with the timestamp column
C12_Witness ==
    /\ pc = "done"
    /\ pbench_graphs
    /\ stat_index = Len(stat_names)
    /\ Len(intervals) = 2
    /\ sorted_fop_names = <<"READ", "WRITE">>
    /\ Len(files["avg-lat.csv"]) = 3
    /\ files["avg-lat.csv"][2].columns = <<"     100", "     200">>
    /\ files["avg-lat.csv"][3].columns = <<"       0", "     200">>
    /\ files["avg-lat.csv"][3].prefix = "1005000, "

\* the names that are a key of at least one interval
KeysOfIntervals ==
    UNION { DOMAIN intervals[i].fop_profiles : i \in 1..Len(intervals) }

\* the names of the sequence, as a set
Range(names) == { names[k] : k \in 1..Len(names) }

\* each name once, in ascending lexicographic order
StrictlyAscending(names) ==
    \A j, k \in 1..Len(names) : j < k => StrLess(names[j], names[k])

\* C13: in the step in which parse_input returns, and in every later one,
\* sorted_fop_names holds exactly the names that are a key of at least one
\* interval, each once and in ascending lexicographic order; no step taken
\* after parse_input has returned changes it.
C13_SortedFopNames ==
    [][/\ ParseReturned' =>
             /\ Range(sorted_fop_names') = KeysOfIntervals'
             /\ StrictlyAscending(sorted_fop_names')
       /\ ParseReturned => sorted_fop_names' = sorted_fop_names
      ]_vars

\* the log had WRITE before READ, in two different intervals, and main has
\* gone on to gen_output_bytes with the names in ascending order
C13_Witness ==
    /\ ParseReturned
    /\ exc.in = "gen_output_bytes"
    /\ Len(intervals) = 2
    /\ DOMAIN intervals[1].fop_profiles = {"WRITE"}
    /\ DOMAIN intervals[2].fop_profiles = {"READ"}
    /\ sorted_fop_names = <<"READ", "WRITE">>

\* an operation record without its derived field
ParsedFields(fop_profile) ==
    [calls |-> fop_profile.calls, avg_lat |-> fop_profile.avg_lat,
     min_lat |-> fop_profile.min_lat, max_lat |-> fop_profile.max_lat]

\* the parsed data of an interval: everything but the pct_lat of its records
ParsedData(interval_profile) ==
    [duration |-> interval_profile.duration,
     bytes_read |-> interval_profile.bytes_read,
     bytes_written |-> interval_profile.bytes_written,
     fop_profiles |->
         [f \in DOMAIN interval_profile.fop_profiles |->
             ParsedFields(interval_profile.fop_profiles[f])]]

\* C14: a step of gen_output_bytes or gen_per_fop_stats, and every other
\* step taken after parse_input has returned, leaves the number of
\* intervals, each interval's key set, duration, bytes_read and
\* bytes_written, and each record's calls, avg_lat, min_lat and max_lat as
\* they were: only pct_lat of existing records may change.
C14_EmissionFrame ==
    [][ParseReturned =>
          /\ Len(intervals') = Len(intervals)
          /\ \A i \in 1..Len(intervals) :
                ParsedData(intervals'[i]) = ParsedData(intervals[i])
      ]_vars

\* gen_per_fop_stats has written pct_lat into the records of two intervals
\* whose parsed fields are those of their rows
C14_Witness ==
    /\ pc = "done"
    /\ Len(intervals) = 2
    /\ sorted_fop_names = <<"WRITE">>
    /\ intervals[1].fop_profiles["WRITE"].pct_lat = RatOfInt(100)
    /\ ParsedFields(intervals[1].fop_profiles["WRITE"]) =
          [calls |-> 5, avg_lat |-> 200, min_lat |-> 100, max_lat |-> 300]
    /\ intervals[2].fop_profiles["WRITE"].pct_lat = RatOfInt(100)
    /\ intervals[1].duration = 5 /\ intervals[2].duration = 7
    /\ intervals[2].bytes_read = 2500000
    /\ intervals[2].bytes_written = 5000000

\* the parser is in the cumulative block: the cumulative flag alone is true
InCumulativeBlock == found_cumulative_output /\ ~found_interval_output

\* C15: an 'Interval N stats' line read in the cumulative block opens a new
\* interval and leaves the cumulative flag false and the interval flag true,
\* the state in which the assertion of a following 'Duration :' line holds
\* and its duration goes to the interval just opened.
C15_IntervalMarkerEndsCumulativeBlock ==
    [][\A l \in Lines :
          (InCumulativeBlock /\ IntervalStatsLine(l)) =>
              /\ Len(intervals') = Len(intervals) + 1
              /\ intvl' + 1 = Len(intervals')
              /\ found_interval_output'
              /\ ~found_cumulative_output'
              /\ found_cumulative_output' # found_interval_output'
      ]_vars

\* parse_input reads the line l: the step of the branch that l takes
LineRead(l) ==
    LET branch == BranchOf[l, found_interval_output]
    IN  CASE branch = 1 -> IntervalStatsLine(l)
          [] branch = 2 -> CumulativeStatsCapLine(l)
          [] branch = 3 -> DurationLine(l)
          [] branch = 4 -> BytesReadLine(l)
          [] branch = 5 -> BytesWrittenLine(l)
          [] branch = 6 -> CumulativeStatsLine(l)
          [] branch = 7 -> CurrentOpenFdLine(l)
          [] branch = 8 -> FopLine(l)
          [] OTHER -> IgnoredLine(l)

\* C16: a line read by parse_input changes the interval sequence or the
\* accumulated name set only if it is an 'Interval N stats' marker, or the
\* interval flag is true and the line is a 'Duration :', 'BytesRead',
\* 'BytesWritten' or operation-row line; any other line leaves both as they
\* were.
C16_LineFrame ==
    [][\/ pc # "parse_input"
       \/ intervals' = intervals /\ fop_names' = fop_names
       \/ \A l \in Lines :
             \/ Kind(l) = 1
             \/ found_interval_output /\ Kind(l) \in {3, 4, 5, 8}
             \/ ~LineRead(l)
      ]_vars

\* four lines have been read, of which the marker, the READ row and the
\* cumulative marker account for the state: the fourth left the interval and
\* the name set alone
C16_Witness ==
    /\ pc = "parse_input"
    /\ lineno = 4
    /\ InCumulativeBlock
    /\ fop_names = {"READ"}
    /\ Len(intervals) = 1
    /\ DOMAIN intervals[1].fop_profiles = {"READ"}
    /\ intervals[1].duration = None
    /\ intervals[1].bytes_read = None
    /\ intervals[1].bytes_written = None

\* C17: the index printed in the warning for a deviating 'Duration :' line
\* is the position, counted from 0 as the interval markers count, of the
\* interval that is open when the line is read.
C17_WarningNamesInterval ==
    [][\A l \in Lines :
          (Kind(l) = 3 /\ DurationLine(l) /\ Len(warnings') > Len(warnings))
              => warnings'[Len(warnings')].sample = Len(intervals) - 1
      ]_vars

\* the counters of parse_input against the interval sequence
CountersFollowIntervals ==
    HeaderParsed =>
        /\ intvl = Len(intervals) - 1
        /\ last_intvl = intvl - 1

\* C18: in every state of parse_input intvl is len(intervals) - 1 and
\* last_intvl is intvl - 1, whatever numbers the interval markers carry; an
\* interval marker with a number therefore never fails the assertion of
\* line 263 and appends one new interval, and any other step of parse_input
\* that changes the interval sequence (a duration, a byte counter or an
\* operation row stored) changes the most recently appended interval and no
\* other.
C18_CountersFollowIntervals ==
    /\ []CountersFollowIntervals
    /\ [][\A l \in Lines :
             (Kind(l) = 1 /\ IntervalStatsLine(l)) =>
                   /\ pc' = "parse_input"
                   /\ exc' = NoExc
                   /\ intervals' = Append(intervals, ProfileInterval)
         ]_vars
    /\ [][pc = "parse_input" =>
             \/ intervals' = intervals
             \/ intervals' = Append(intervals, ProfileInterval)
             \/ /\ Len(intervals') = Len(intervals)
                /\ \A i \in 1..(Len(intervals) - 1) :
                      intervals'[i] = intervals[i]
         ]_vars

\* the first marker carried the number 1: it opened interval 0, and the
\* duration and the row that followed are in that interval
C18_Witness ==
    /\ pc = "parse_input"
    /\ interval_number = 1
    /\ intvl = 0 /\ last_intvl = -1
    /\ Len(intervals) = 1
    /\ intervals[1].duration = 6
    /\ DOMAIN intervals[1].fop_profiles = {"WRITE"}

\* parse_input has just returned without an error, in the neutral state,
\* with one interval per marker and every interval complete
ParseFinishedWell ==
    /\ pc = "make_out_dir"
    /\ exc = NoExc
    /\ ~found_interval_output /\ ~found_cumulative_output
    /\ Len(intervals) = (IF interval_number = None THEN 0
                         ELSE interval_number + 1)
    /\ \A i \in 1..Len(intervals) :
          /\ intervals[i].duration # None
          /\ intervals[i].bytes_read # None
          /\ intervals[i].bytes_written # None

\* C19: on a valid header followed by well-formed snapshots, whose markers
\* are numbered 0, 1, ... in order, no step of parse_input raises, the lines
\* of a cumulative block leave every interval as its own block set it, and
\* parse_input eventually returns in the neutral state with one interval per
\* marker, each with its duration, bytes_read and bytes_written set.
C19_WellFormedLogParses ==
    /\ [](exc = NoExc)
    /\ [][(pc = "parse_input" /\ found_cumulative_output)
             => intervals' = intervals]_vars
    /\ <>ParseFinishedWell

\* parse_input has returned from a log of two snapshots that holds two
\* cumulative rows or 'Duration :' lines: its other lines are 13
C19_Witness ==
    /\ ParseFinishedWell
    /\ Len(intervals) = 2
    /\ intervals[1].duration = 7
    /\ DOMAIN intervals[1].fop_profiles = {}
    /\ DOMAIN intervals[2].fop_profiles = {"READ"}
    /\ lineno = 15

\* all_fop_profile of lines 389-392 for the interval at TLA+ index i
AllFopProfile(i) ==
    AccumulateAll(sorted_fop_names, intervals[i].fop_profiles,
                  FopProfile(0, 0, 0, 0))

\* the operations of the interval at TLA+ index i that were called
CalledFops(i) ==
    { f \in DOMAIN intervals[i].fop_profiles :
        intervals[i].fop_profiles[f].calls > 0 }

\* C20: for every interval gen_per_fop_stats has processed that has an
\* operation with calls > 0, the max_lat of the combined accumulator is the
\* largest max_lat, and its min_lat the smallest min_lat, among the
\* operations of the interval with calls > 0.
C20_AccumulatorMinMax ==
    \A i \in 1..(IF HeaderParsed THEN Len(intervals) ELSE 0) :
        (HasDataRow("pct-lat.csv", i) /\ CalledFops(i) # {}) =>
            LET fops == intervals[i].fop_profiles
            IN  /\ \E f \in CalledFops(i) :
                      AllFopProfile(i).max_lat = fops[f].max_lat
                /\ \A f \in CalledFops(i) :
                      AllFopProfile(i).max_lat >= fops[f].max_lat
                /\ \E f \in CalledFops(i) :
                      AllFopProfile(i).min_lat = fops[f].min_lat
                /\ \A f \in CalledFops(i) :
                      AllFopProfile(i).min_lat <= fops[f].min_lat

====
